---- MODULE Spec2Model ----
(***************************************************************************)
(* Google Photos Album Backup (google_photos_album_backup.user.js).        *)
(*                                                                         *)
(* A session of the userscript against one remote photo library: at most   *)
(* one runExport, then a runImport, which may be interrupted (the page is  *)
(* closed) after it created albums and be run once more.  The remote       *)
(* service (GPTK's gptkApi) is the environment: it lists the library in    *)
(* pages, answers detail fetches, creates albums and adds items, and each  *)
(* of its calls may fail by rejecting; an answer it gives is truthful.     *)
(* Every await of the script is a step of the model; the code between two  *)
(* awaits runs to completion inside one action.                            *)
(*                                                                         *)
(* Magnitudes are scaled so that they fit the checker's integers: the      *)
(* source's factor 1000 is Kilo, 10^12 = 1000^4 is Kilo^4 and              *)
(* 10^15 = 1000^5 is Kilo^5; the pool size 20, the batch size 500 and the  *)
(* page size 500 are scaled likewise.                                      *)
(***************************************************************************)
EXTENDS Integers, Sequences, FiniteSets, TLC

\* ------------------------------------------------------------------------
\* Scaled magnitudes and bounds
\* ------------------------------------------------------------------------

\* stands for the source's 1000 (ms per second, us per ms)
Kilo == 10
\* stands for 1e12 = 1000^4
E12 == Kilo ^ 4
\* stands for 1e15 = 1000^5
E15 == Kilo ^ 5
\* stands for the source's 20
MAX_CONCURRENT_REQUESTS == 2
\* stands for the source's 500
BATCH_SIZE == 2
\* stands for the page size 500 passed to getItemsByTakenDate
PageSize == 2
\* number of items of the remote library
MaxItems == 4
\* how many pages without items the listing may return in one run
MaxEmptyPages == 1

\* ------------------------------------------------------------------------
\* Values
\* ------------------------------------------------------------------------

\* an optional value: None is JavaScript's undefined/null, Some(v) a value
None == << >>
Some(v) == << v >>

Range(s) == { s[i] : i \in 1..Len(s) }

RECURSIVE SumSeq(_)
SumSeq(s) == IF s = << >> THEN 0 ELSE s[1] + SumSeq(Tail(s))

RECURSIVE Flatten(_)
Flatten(ss) == IF ss = << >> THEN << >> ELSE ss[1] \o Flatten(Tail(ss))

\* A JavaScript number n is carried as the integer n * Kilo wherever the
\* source divides by 1000, so that ts / 1000 is exact for every integer ts.
Fx(n) == n * Kilo

\* ------------------------------------------------------------------------
\* Timestamp utilities
\* ------------------------------------------------------------------------

\* (mutant) the thresholds themselves in the upper class
normalizeToMs_Inclusive(ts) ==
  IF ts >= Fx(E15) THEN ts \div Kilo
  ELSE IF ts >= Fx(E12) THEN ts
  ELSE ts * Kilo

\* (mutant) without the class "already milliseconds"
normalizeToMs_NoMsClass(ts) ==
  IF ts > Fx(E15) THEN ts \div Kilo
  ELSE ts * Kilo

\* normalizeToMs(ts), on and to numbers carried as Fx
normalizeToMs(ts) ==
  IF ts > Fx(E15) THEN ts \div Kilo
  ELSE IF ts > Fx(E12) THEN ts
  ELSE ts * Kilo

\* normalizeToSeconds(ts), on integers (Math.floor of the quotient)
normalizeToSeconds(ts) ==
  IF ts > E15 THEN ts \div (Kilo * Kilo)
  ELSE IF ts > E12 THEN ts \div Kilo
  ELSE ts

\* (mutant) under "seconds" the key is the whole second without the fileName
KeyOf_SecondOnly(matchMode, fileName, timestamp) ==
  IF matchMode = "exact" THEN fileName \o "|" \o ToString(timestamp)
  ELSE IF matchMode = "seconds"
       THEN ToString(normalizeToSeconds(timestamp))
  ELSE fileName

\* the key a (fileName, timestamp) pair derives under matchMode
KeyOf(matchMode, fileName, timestamp) ==
  IF matchMode = "exact" THEN fileName \o "|" \o ToString(timestamp)
  ELSE IF matchMode = "seconds"
       THEN fileName \o "|" \o ToString(normalizeToSeconds(timestamp))
  ELSE fileName

Modes == { "exact", "seconds", "filename" }

\* the key of a row of the file, "const [fileName, timestamp] of photos": a row
\* with a single element leaves timestamp undefined
RowKey(matchMode, row) ==
  IF Len(row) >= 2 THEN KeyOf(matchMode, row[1], row[2])
  ELSE IF matchMode = "filename" THEN row[1]
  ELSE row[1] \o "|undefined"

\* ------------------------------------------------------------------------
\* The remote library (environment)
\* ------------------------------------------------------------------------

ItemIds == 1..MaxItems

\* second 2000 of the scaled epoch: Base ms, Base * Kilo us, Base \div Kilo s
Base == 2 * E12

FileNameOf(i) ==
  CASE i = 1 -> "a.jpg"
    [] i = 2 -> "a.jpg"
    [] i = 3 -> "b.jpg"
    [] OTHER -> "c.jpg"

\* item 1 and 2 in milliseconds (same second), 3 in microseconds, the others
\* in seconds (earlier seconds)
TimestampOf(i) ==
  CASE i = 1 -> Base + 2
    [] i = 2 -> Base + 1
    [] i = 3 -> Base * Kilo
    [] OTHER -> (Base \div Kilo) + 3 - i

Item(i) == [ mediaKey |-> i, fileName |-> FileNameOf(i), timestamp |-> TimestampOf(i) ]

ItemMs(i) == normalizeToMs(Fx(TimestampOf(i)))

\* the library in the order the listing returns it: newest first
RECURSIVE SortDesc(_)
SortDesc(S) ==
  IF S = {} THEN << >>
  ELSE LET top == CHOOSE i \in S :
                    \A j \in S : ItemMs(i) > ItemMs(j) \/ (ItemMs(i) = ItemMs(j) /\ i <= j)
       IN << top >> \o SortDesc(S \ {top})

Listing == SortDesc(ItemIds)

Titles == { "A", "B", "C", "D" }

\* the albums of the library before the session
AlbumsBefore ==
  << [ title |-> "A", isShared |-> FALSE, items |-> { 1, 2 } ],
     [ title |-> "B", isShared |-> TRUE, items |-> { 2, 3 } ] >>

\* a library re-imported without its albums
AlbumsLost == << >>

\* ------------------------------------------------------------------------
\* Snapshots (the JSON file)
\* ------------------------------------------------------------------------

Snapshot(s, e, a) == [ start_timestamp |-> s, end_timestamp |-> e, albums |-> a ]
Entry(name, photos) == [ name |-> name, photos |-> photos ]

\* files offered to runImport that no export of this session wrote
ForeignSnapshots ==
  { \* millisecond snapshot of an earlier state of the library
    Snapshot(Some(Base - Kilo), Some(Base + Kilo - 1),
      Some(<< Entry("A", << <<"a.jpg", Base + 2>>, <<"a.jpg", Base + 2>>,
                            <<"a.jpg", Base + 1>>, <<"b.jpg", Base>> >>),
              Entry("B", << <<"b.jpg", Base * Kilo>> >>),
              Entry("C", << <<"c.jpg", Base - Kilo>> >>),
              Entry("D", << <<"z.jpg", Base>> >>) >>)),
    \* microsecond snapshot (the README's example format)
    Snapshot(Some((Base - Kilo) * Kilo), Some((Base + Kilo) * Kilo),
      Some(<< Entry("C", << <<"a.jpg", (Base + 2) * Kilo>> >>) >>)),
    \* microsecond snapshot of a range that ends before the newest item
    Snapshot(Some((Base - Kilo) * Kilo), Some((Base + 1) * Kilo),
      Some(<< Entry("A", << <<"a.jpg", (Base + 1) * Kilo>> >>) >>)),
    \* snapshot in seconds
    Snapshot(Some((Base - Kilo) \div Kilo), Some((Base + Kilo) \div Kilo),
      Some(<< Entry("B", << <<"b.jpg", Base \div Kilo>> >>) >>)),
    \* no rows
    Snapshot(Some(Base - Kilo), Some(Base + Kilo - 1), Some(<< Entry("A", << >>) >>)),
    \* start_timestamp 0
    Snapshot(Some(0), Some(Base + Kilo - 1),
      Some(<< Entry("A", << <<"a.jpg", Base + 2>> >>) >>)),
    \* rows of the wrong shape: the timestamp of the pair is missing
    Snapshot(Some(Base - Kilo), Some(Base + Kilo - 1), Some(<< Entry("A", << <<"a.jpg">> >>) >>)),
    \* fields missing
    Snapshot(None, Some(Base + Kilo - 1), Some(<< Entry("A", << <<"a.jpg", Base + 2>> >>) >>)),
    Snapshot(Some(Base - Kilo), None, Some(<< Entry("A", << <<"a.jpg", Base + 2>> >>) >>)),
    Snapshot(Some(Base - Kilo), Some(Base + Kilo - 1), None) }

\* !x of the source, for an optional number and for an optional object
FalsyNumber(x) == x = None \/ x[1] = 0
FalsyObject(x) == x = None

\* all (fileName, timestamp) rows of the album entries, in order
Rows(albumEntries) == Flatten([ i \in 1..Len(albumEntries) |-> albumEntries[i].photos ])

\* ------------------------------------------------------------------------
\* State
\* ------------------------------------------------------------------------

VARIABLES
  remoteAlbums,   \* the albums of the remote library: title, isShared, items
  albumsAtStart,  \* remoteAlbums before the run in progress (history)
  pc,             \* position of the running function, "idle" between runs
  run,            \* "none", "export" or "import": the function that runs or ran last
  done,           \* the functions that have returned in this session, and
                  \* "interrupted" once a run was cut short
  outcome,        \* how the last run ended
  exportFile,     \* the snapshot runExport downloaded, if any
  jsonData,       \* runImport's argument
  matchMode,      \* runImport's argument
  startMs, endMs, \* range bounds (Fx)
  allItems,       \* items accumulated by the range fetch (item ids)
  pageId,         \* next page token, 0 for null
  currentTs,      \* time anchor of the next listing call
  emptyPages,     \* pages without items returned so far (environment)
  listCalls,      \* the listing calls of the loop in progress, with their pages
  loopExit,       \* how the range fetch loop ended (NoExit while it has not):
                  \* by "break" or "noToken", after how many calls, leaving a token?
                  \* and the page of the last call
  itemsWithInfo,  \* enriched items
  nextIdx,        \* index into allItems of the next fetch to start
  promisePool,    \* indexes of the fetches started and not settled
  fetchCompleted, \* counter of the finally handler
  fetchErrors,    \* number of "Error fetching info" messages logged
  settledOk,      \* indexes of the fetches that resolved (history)
  settledFail,    \* indexes of the fetches that rejected (history)
  anyFailure,     \* a remote call of the session has failed (history)
  albumCache,     \* title -> [mediaKey, isShared]
  uniquePhotos, matchedPhotos, notFoundPhotos,
  albumToPhotos,  \* the plan: sequence of [name, mediaKeys]
  albumsToCreate, createIdx, createdCount,
  albumIdx, batchIdx, successCount, errorCount,
  createCalls,    \* history of createAlbum calls: [title, ok]
  addCalls,       \* history of the settled add calls: [name, mediaKey, shared, batch, ok]
  addInFlight,    \* the add calls issued and not settled: [name, mediaKey, shared, batch]
  report,         \* the summary, once logged
  tsIn,           \* a timestamp handed to normalizeToMs on its own
  tsOut,          \* the results of normalizeToMs applied to tsIn, then to its result
  keys            \* the keys derived for three records of the whole second tsIn

envVars == << remoteAlbums, albumsAtStart >>
ctlVars == << pc, run, done, outcome >>
argVars == << exportFile, jsonData, matchMode >>
rangeVars == << startMs, endMs, allItems, pageId, currentTs, emptyPages, listCalls, loopExit >>
enrichVars == << itemsWithInfo, nextIdx, promisePool, fetchCompleted, fetchErrors,
                settledOk, settledFail >>
matchVars == << uniquePhotos, matchedPhotos, notFoundPhotos, albumToPhotos >>
writeVars == << albumCache, albumsToCreate, createIdx, createdCount, albumIdx, batchIdx,
                successCount, errorCount, createCalls, addCalls, addInFlight, report >>
fnVars == << tsIn, tsOut, keys >>
vars == << envVars, ctlVars, argVars, rangeVars, enrichVars, matchVars, writeVars, anyFailure,
           fnVars >>

NoPage == [ items |-> << >>, lastItemTimestamp |-> None, nextPageId |-> 0 ]
NoExit == [ how |-> "none", calls |-> 0, token |-> FALSE, page |-> NoPage ]

\* the locals of a run, as they are before its first statement
ResetLocals ==
  /\ allItems' = << >> /\ pageId' = 0 /\ emptyPages' = 0
  /\ listCalls' = << >> /\ loopExit' = NoExit
  /\ itemsWithInfo' = << >> /\ nextIdx' = 1 /\ promisePool' = {}
  /\ fetchCompleted' = 0 /\ fetchErrors' = 0 /\ settledOk' = {} /\ settledFail' = {}
  /\ matchedPhotos' = {} /\ notFoundPhotos' = {} /\ albumToPhotos' = << >>
  /\ albumCache' = << >> /\ albumsToCreate' = << >> /\ createIdx' = 1 /\ createdCount' = 0
  /\ albumIdx' = 1 /\ batchIdx' = 1 /\ successCount' = 0 /\ errorCount' = 0
  /\ createCalls' = << >> /\ addCalls' = << >> /\ addInFlight' = << >> /\ report' = None

\* the script is loaded: no run yet
InitRun ==
  /\ albumsAtStart = remoteAlbums
  /\ pc = "idle" /\ run = "none" /\ done = {} /\ outcome = "none"
  /\ exportFile = None /\ jsonData = Snapshot(None, None, None) /\ matchMode = "seconds"
  /\ startMs = 0 /\ endMs = 0
  /\ allItems = << >> /\ pageId = 0 /\ currentTs = None /\ emptyPages = 0
  /\ listCalls = << >> /\ loopExit = NoExit
  /\ itemsWithInfo = << >> /\ nextIdx = 1 /\ promisePool = {}
  /\ fetchCompleted = 0 /\ fetchErrors = 0 /\ settledOk = {} /\ settledFail = {}
  /\ anyFailure = FALSE
  /\ uniquePhotos = {} /\ matchedPhotos = {} /\ notFoundPhotos = {} /\ albumToPhotos = << >>
  /\ albumCache = << >> /\ albumsToCreate = << >> /\ createIdx = 1 /\ createdCount = 0
  /\ albumIdx = 1 /\ batchIdx = 1 /\ successCount = 0 /\ errorCount = 0
  /\ createCalls = << >> /\ addCalls = << >> /\ addInFlight = << >> /\ report = None

Init ==
  /\ remoteAlbums \in { AlbumsBefore, AlbumsLost }
  /\ InitRun
  /\ tsIn = 0 /\ tsOut = << >> /\ keys = None

\* a run returns (or throws): control goes back to the page
Return(how) ==
  /\ pc' = "idle" /\ done' = done \cup { run } /\ outcome' = how /\ UNCHANGED run

\* ------------------------------------------------------------------------
\* runImport: validation and key set (lines 579-638)
\* ------------------------------------------------------------------------

\* the set uniquePhotos built from the album entries
UniqueKeys(mode, albumEntries) ==
  { RowKey(mode, r) : r \in Range(Rows(albumEntries)) }

\* the file handed to runImport: the same file again after an interrupted
\* run, else the file the export of this session wrote, or a foreign file in
\* a session without export
ImportFiles ==
  IF "interrupted" \in done THEN { jsonData }
  ELSE IF exportFile # None THEN { exportFile[1] }
  ELSE ForeignSnapshots

\* (mutant) the invalid structure is logged but the function does not return
ImportBegin_NoReturn ==
  /\ pc = "idle" /\ "import" \notin done
  /\ done = {} \/ exportFile # None \/ "interrupted" \in done
  /\ \E data \in ImportFiles, mode \in Modes :
       /\ jsonData' = data /\ matchMode' = mode /\ run' = "import"
       /\ ResetLocals /\ currentTs' = None
       /\ IF FalsyNumber(data.start_timestamp) \/ FalsyNumber(data.end_timestamp)
             \/ FalsyObject(data.albums)
          THEN /\ pc' = "albums" /\ outcome' = "running" /\ UNCHANGED done
               /\ uniquePhotos' = {}
               /\ UNCHANGED << startMs, endMs >>
          ELSE /\ startMs' = normalizeToMs(Fx(data.start_timestamp[1]))
               /\ endMs' = normalizeToMs(Fx(data.end_timestamp[1]))
               /\ uniquePhotos' = UniqueKeys(mode, data.albums[1])
               /\ IF uniquePhotos' = {}
                  THEN /\ pc' = "idle" /\ done' = done \cup { "import" }
                       /\ outcome' = "noPhotosInJson"
                  ELSE /\ pc' = "albums" /\ outcome' = "running" /\ UNCHANGED done
  /\ albumsAtStart' = remoteAlbums
  /\ UNCHANGED << fnVars, remoteAlbums, exportFile, anyFailure >>

ImportBegin ==
  /\ pc = "idle" /\ "import" \notin done
  /\ done = {} \/ exportFile # None \/ "interrupted" \in done
  /\ \E data \in ImportFiles, mode \in Modes :
       /\ jsonData' = data /\ matchMode' = mode /\ run' = "import"
       /\ ResetLocals /\ currentTs' = None
       /\ IF FalsyNumber(data.start_timestamp) \/ FalsyNumber(data.end_timestamp)
             \/ FalsyObject(data.albums)
          THEN /\ pc' = "idle" /\ done' = done \cup { "import" } /\ outcome' = "invalid"
               /\ uniquePhotos' = {}
               /\ UNCHANGED << startMs, endMs >>
          ELSE /\ startMs' = normalizeToMs(Fx(data.start_timestamp[1]))
               /\ endMs' = normalizeToMs(Fx(data.end_timestamp[1]))
               /\ uniquePhotos' = UniqueKeys(mode, data.albums[1])
               /\ IF uniquePhotos' = {}
                  THEN /\ pc' = "idle" /\ done' = done \cup { "import" }
                       /\ outcome' = "noPhotosInJson"
                  ELSE /\ pc' = "albums" /\ outcome' = "running" /\ UNCHANGED done
  /\ albumsAtStart' = remoteAlbums
  /\ UNCHANGED << fnVars, remoteAlbums, exportFile, anyFailure >>

\* ------------------------------------------------------------------------
\* runImport: the album listing (lines 640-660)
\* ------------------------------------------------------------------------

\* (mutant) an album without items is not cached
RECURSIVE CacheAlbums_SkipEmpty(_, _, _)
CacheAlbums_SkipEmpty(cache, albums, k) ==
  IF k > Len(albums) THEN cache
  ELSE CacheAlbums_SkipEmpty(
         IF albums[k].items # {}
         THEN [ t \in DOMAIN cache \cup { albums[k].title } |->
                  IF t = albums[k].title
                  THEN [ mediaKey |-> k, isShared |-> albums[k].isShared ]
                  ELSE cache[t] ]
         ELSE cache,
         albums, k + 1)

\* the cache after the titled albums of a page are set, later entries winning
RECURSIVE CacheAlbums(_, _, _)
CacheAlbums(cache, albums, k) ==
  IF k > Len(albums) THEN cache
  ELSE CacheAlbums(
         IF albums[k].title # ""
         THEN [ t \in DOMAIN cache \cup { albums[k].title } |->
                  IF t = albums[k].title
                  THEN [ mediaKey |-> k, isShared |-> albums[k].isShared ]
                  ELSE cache[t] ]
         ELSE cache,
         albums, k + 1)

\* the sizes the service may give the page of albums for token pid; a page
\* without albums only for a library that has none
AlbumPageLens(pid) ==
  LET from == IF pid = 0 THEN 1 ELSE pid
      left == Len(remoteAlbums) - from + 1
  IN { n \in 0..PageSize : n <= left /\ (n = 0 => left = 0) }

\* one turn of the album listing loop: getAlbums(pageId) returns the next
\* albums of the library, they are cached, and the loop goes on while the page
\* has a token; for a library without albums the page is null or without
\* items, and the cache stays empty either way
GetAlbums ==
  /\ pc = "albums"
  /\ \E n \in AlbumPageLens(pageId) :
       LET from == IF pageId = 0 THEN 1 ELSE pageId
           upto == from + n - 1
           nextPageId == IF upto >= Len(remoteAlbums) THEN 0 ELSE upto + 1
       IN /\ albumCache' = CacheAlbums(albumCache, SubSeq(remoteAlbums, 1, upto), from)
          /\ pageId' = nextPageId
          /\ IF nextPageId # 0
             THEN UNCHANGED << pc, currentTs >>
             ELSE pc' = "list" /\ currentTs' = jsonData.end_timestamp
  /\ UNCHANGED << fnVars, envVars, run, done, outcome, argVars, startMs, endMs, allItems,
                  emptyPages, listCalls, loopExit, enrichVars, matchVars, albumsToCreate,
                  createIdx,
                  createdCount, albumIdx, batchIdx, successCount, errorCount, createCalls,
                  addCalls, addInFlight, report, anyFailure >>

\* ------------------------------------------------------------------------
\* The range fetch of runExport (lines 453-485) and runImport (lines 665-697)
\* ------------------------------------------------------------------------

\* (mutant) the filter without its upper bound
Filtered_NoUpper(items, lo, hi) ==
  SelectSeq(items, LAMBDA i : ItemMs(i) >= lo)

\* items of the page that pass the filter, in page order
Filtered(items, lo, hi) ==
  SelectSeq(items, LAMBDA i : ItemMs(i) >= lo /\ ItemMs(i) <= hi)

\* where the listing resumes: at the token, or for the first call (null
\* token) at the newest item taken no later than the time anchor, which the
\* service reads as milliseconds ("Start from end date (milliseconds)")
StartOf(pid, ts) ==
  IF pid # 0 THEN pid
  ELSE 1 + Cardinality({ i \in ItemIds : ts # None /\ ItemMs(i) > Fx(ts[1]) })

\* the page the service returns for token pid when it delivers n items
PageOf(pid, ts, n) ==
  LET from == StartOf(pid, ts)
      items == SubSeq(Listing, from, from + n - 1)
  IN [ items |-> items,
       lastItemTimestamp |-> IF n = 0 THEN None ELSE Some(TimestampOf(items[n])),
       nextPageId |-> IF from + n > Len(Listing) THEN 0 ELSE from + n ]

\* the sizes the service may give the page for token pid
PageLens(pid, ts) ==
  LET from == StartOf(pid, ts)
      left == Len(Listing) - from + 1
  IN { n \in 0..PageSize : n <= left /\ (n = 0 => (left = 0 \/ emptyPages < MaxEmptyPages)) }

\* (mutant) the comparison without normalization
PastStart_Raw(page, lo) ==
  /\ page.lastItemTimestamp # None
  /\ page.lastItemTimestamp[1] # 0
  /\ Fx(page.lastItemTimestamp[1]) < lo

\* "if (page.lastItemTimestamp && normalizeToMs(page.lastItemTimestamp) < startMs) break"
PastStart(page, lo) ==
  /\ page.lastItemTimestamp # None
  /\ page.lastItemTimestamp[1] # 0
  /\ normalizeToMs(Fx(page.lastItemTimestamp[1])) < lo

\* (mutant) the stop is tested before the page's items are kept
FetchPage_BreakBeforeFilter ==
  /\ pc = "list"
  /\ \E n \in PageLens(pageId, currentTs) :
       LET page == PageOf(pageId, currentTs, n)
           break == n > 0 /\ PastStart(page, startMs)
           items == IF n > 0 /\ ~break
                    THEN allItems \o Filtered(page.items, startMs, endMs)
                    ELSE allItems
           more == ~break /\ page.nextPageId # 0
       IN /\ allItems' = items
          /\ IF more
             THEN /\ listCalls' = Append(listCalls,
                       [ currentTs |-> currentTs, pageId |-> pageId, page |-> page ])
                  /\ emptyPages' = IF n = 0 THEN emptyPages + 1 ELSE emptyPages
                  /\ pageId' = page.nextPageId
                  /\ currentTs' = page.lastItemTimestamp
                  /\ UNCHANGED << loopExit, pc, done, outcome >>
             ELSE /\ listCalls' = << >> /\ emptyPages' = 0
                  /\ pageId' = 0 /\ currentTs' = None
                  /\ loopExit' = [ how |-> IF break THEN "break" ELSE "noToken",
                                   calls |-> Len(listCalls) + 1,
                                   token |-> page.nextPageId # 0,
                                   page |-> page ]
                  /\ IF items = << >>
                     THEN /\ pc' = "idle" /\ done' = done \cup { run }
                          /\ outcome' = "noItems"
                     ELSE /\ pc' = "enrich" /\ UNCHANGED << done, outcome >>
  /\ UNCHANGED << fnVars, envVars, run, argVars, startMs, endMs, enrichVars, matchVars, writeVars,
                  anyFailure >>

\* (mutant) a page without an item in the range ends the loop
FetchPage_StopOnNoneInRange ==
  /\ pc = "list"
  /\ \E n \in PageLens(pageId, currentTs) :
       LET page == PageOf(pageId, currentTs, n)
           break == n > 0 /\ PastStart(page, startMs)
           items == IF n > 0 THEN allItems \o Filtered(page.items, startMs, endMs)
                    ELSE allItems
           more == /\ ~break /\ page.nextPageId # 0
                   /\ Filtered(page.items, startMs, endMs) # << >>
       IN /\ allItems' = items
          /\ IF more
             THEN /\ listCalls' = Append(listCalls,
                       [ currentTs |-> currentTs, pageId |-> pageId, page |-> page ])
                  /\ emptyPages' = IF n = 0 THEN emptyPages + 1 ELSE emptyPages
                  /\ pageId' = page.nextPageId
                  /\ currentTs' = page.lastItemTimestamp
                  /\ UNCHANGED << loopExit, pc, done, outcome >>
             ELSE /\ listCalls' = << >> /\ emptyPages' = 0
                  /\ pageId' = 0 /\ currentTs' = None
                  /\ loopExit' = [ how |-> IF break THEN "break" ELSE "noToken",
                                   calls |-> Len(listCalls) + 1,
                                   token |-> page.nextPageId # 0,
                                   page |-> page ]
                  /\ IF items = << >>
                     THEN /\ pc' = "idle" /\ done' = done \cup { run }
                          /\ outcome' = "noItems"
                     ELSE /\ pc' = "enrich" /\ UNCHANGED << done, outcome >>
  /\ UNCHANGED << fnVars, envVars, run, argVars, startMs, endMs, enrichVars, matchVars, writeVars,
                  anyFailure >>

\* (mutant) the function goes on to the enrichment with no item
FetchPage_NoEmptyCheck ==
  /\ pc = "list"
  /\ \E n \in PageLens(pageId, currentTs) :
       LET page == PageOf(pageId, currentTs, n)
           break == n > 0 /\ PastStart(page, startMs)
           items == IF n > 0 THEN allItems \o Filtered(page.items, startMs, endMs)
                    ELSE allItems
           more == ~break /\ page.nextPageId # 0
       IN /\ allItems' = items
          /\ IF more
             THEN \* the loop goes on with the page's token and time anchor
                  /\ listCalls' = Append(listCalls,
                       [ currentTs |-> currentTs, pageId |-> pageId, page |-> page ])
                  /\ emptyPages' = IF n = 0 THEN emptyPages + 1 ELSE emptyPages
                  /\ pageId' = page.nextPageId
                  /\ currentTs' = page.lastItemTimestamp
                  /\ UNCHANGED << loopExit, pc, done, outcome >>
             ELSE \* the loop is left; its cursor is not used again
                  /\ listCalls' = << >> /\ emptyPages' = 0
                  /\ pageId' = 0 /\ currentTs' = None
                  /\ loopExit' = [ how |-> IF break THEN "break" ELSE "noToken",
                                   calls |-> Len(listCalls) + 1,
                                   token |-> page.nextPageId # 0,
                                   page |-> page ]
                  /\ pc' = "enrich" /\ UNCHANGED << done, outcome >>
  /\ UNCHANGED << fnVars, envVars, run, argVars, startMs, endMs, enrichVars, matchVars, writeVars,
                  anyFailure >>

FetchPage ==
  /\ pc = "list"
  /\ \E n \in PageLens(pageId, currentTs) :
       LET page == PageOf(pageId, currentTs, n)
           break == n > 0 /\ PastStart(page, startMs)
           items == IF n > 0 THEN allItems \o Filtered(page.items, startMs, endMs)
                    ELSE allItems
           more == ~break /\ page.nextPageId # 0
       IN /\ allItems' = items
          /\ IF more
             THEN \* the loop goes on with the page's token and time anchor
                  /\ listCalls' = Append(listCalls,
                       [ currentTs |-> currentTs, pageId |-> pageId, page |-> page ])
                  /\ emptyPages' = IF n = 0 THEN emptyPages + 1 ELSE emptyPages
                  /\ pageId' = page.nextPageId
                  /\ currentTs' = page.lastItemTimestamp
                  /\ UNCHANGED << loopExit, pc, done, outcome >>
             ELSE \* the loop is left; its cursor is not used again
                  /\ listCalls' = << >> /\ emptyPages' = 0
                  /\ pageId' = 0 /\ currentTs' = None
                  /\ loopExit' = [ how |-> IF break THEN "break" ELSE "noToken",
                                   calls |-> Len(listCalls) + 1,
                                   token |-> page.nextPageId # 0,
                                   page |-> page ]
                  /\ IF items = << >>
                     THEN /\ pc' = "idle" /\ done' = done \cup { run }
                          /\ outcome' = "noItems"
                     ELSE /\ pc' = "enrich" /\ UNCHANGED << done, outcome >>
  /\ UNCHANGED << fnVars, envVars, run, argVars, startMs, endMs, enrichVars, matchVars, writeVars,
                  anyFailure >>

\* a listing call rejects: the function throws and its caller logs the error
ListingThrows ==
  /\ pc \in { "albums", "list" }
  /\ Return("listingThrew")
  /\ anyFailure' = TRUE
  /\ UNCHANGED << fnVars, envVars, argVars, rangeVars, enrichVars, matchVars, writeVars >>

\* ------------------------------------------------------------------------
\* The enrichment of runExport (lines 490-522) and runImport (lines 702-736)
\* ------------------------------------------------------------------------

\* the titled albums getItemInfoExt reports for an item
AlbumsOf(i) ==
  SelectSeq([ k \in 1..Len(remoteAlbums) |-> remoteAlbums[k].title ],
            LAMBDA t : \E k \in 1..Len(remoteAlbums) :
                          remoteAlbums[k].title = t /\ i \in remoteAlbums[k].items)

\* (mutant) a fetch settles only while the pool is full
LoopSuspended_FullOnly == Cardinality(promisePool) >= MAX_CONCURRENT_REQUESTS

\* the for loop runs without suspending while the pool has room
LoopSuspended == nextIdx > Len(allItems) \/ Cardinality(promisePool) >= MAX_CONCURRENT_REQUESTS

\* (mutant) the wait "while (promisePool.size > MAX_CONCURRENT_REQUESTS)"
StartFetch_OffByOne ==
  /\ pc = "enrich"
  /\ nextIdx <= Len(allItems)
  /\ Cardinality(promisePool) <= MAX_CONCURRENT_REQUESTS
  /\ promisePool' = promisePool \cup { nextIdx }
  /\ nextIdx' = nextIdx + 1
  /\ UNCHANGED << fnVars, envVars, ctlVars, argVars, rangeVars, itemsWithInfo, fetchCompleted,
                  fetchErrors, settledOk, settledFail, matchVars, writeVars, anyFailure >>

StartFetch ==
  /\ pc = "enrich"
  /\ nextIdx <= Len(allItems)
  /\ Cardinality(promisePool) < MAX_CONCURRENT_REQUESTS
  /\ promisePool' = promisePool \cup { nextIdx }
  /\ nextIdx' = nextIdx + 1
  /\ UNCHANGED << fnVars, envVars, ctlVars, argVars, rangeVars, itemsWithInfo, fetchCompleted,
                  fetchErrors, settledOk, settledFail, matchVars, writeVars, anyFailure >>

\* the enriched item pushed for the fetch of allItems[p]
Enriched(p) ==
  [ mediaKey |-> allItems[p], fileName |-> FileNameOf(allItems[p]),
    timestamp |-> TimestampOf(allItems[p]), albums |-> AlbumsOf(allItems[p]) ]

\* (mutant) a result that arrives after the result of a later fetch is dropped
SettleFetch_LateDropped ==
  /\ pc = "enrich"
  /\ LoopSuspended
  /\ \E p \in promisePool, ok \in BOOLEAN :
       /\ IF ok
          THEN /\ itemsWithInfo' = IF \E q \in settledOk : q > p THEN itemsWithInfo
                                   ELSE Append(itemsWithInfo, Enriched(p))
               /\ settledOk' = settledOk \cup { p }
               /\ UNCHANGED << fetchErrors, settledFail, anyFailure >>
          ELSE /\ fetchErrors' = fetchErrors + 1
               /\ settledFail' = settledFail \cup { p }
               /\ anyFailure' = TRUE
               /\ UNCHANGED << itemsWithInfo, settledOk >>
       /\ fetchCompleted' = fetchCompleted + 1
       /\ promisePool' = promisePool \ { p }
  /\ UNCHANGED << fnVars, envVars, ctlVars, argVars, rangeVars, nextIdx, matchVars, writeVars >>

\* (mutant) the push moved from then to finally
SettleFetch_PushAlways ==
  /\ pc = "enrich"
  /\ LoopSuspended
  /\ \E p \in promisePool, ok \in BOOLEAN :
       /\ itemsWithInfo' = Append(itemsWithInfo, Enriched(p))
       /\ IF ok
          THEN /\ settledOk' = settledOk \cup { p }
               /\ UNCHANGED << fetchErrors, settledFail, anyFailure >>
          ELSE /\ fetchErrors' = fetchErrors + 1
               /\ settledFail' = settledFail \cup { p }
               /\ anyFailure' = TRUE
               /\ UNCHANGED settledOk
       /\ fetchCompleted' = fetchCompleted + 1
       /\ promisePool' = promisePool \ { p }
  /\ UNCHANGED << fnVars, envVars, ctlVars, argVars, rangeVars, nextIdx, matchVars, writeVars >>

\* one pending fetch settles: then or catch, and finally
SettleFetch ==
  /\ pc = "enrich"
  /\ LoopSuspended
  /\ \E p \in promisePool, ok \in BOOLEAN :
       /\ IF ok
          THEN /\ itemsWithInfo' = Append(itemsWithInfo, Enriched(p))
               /\ settledOk' = settledOk \cup { p }
               /\ UNCHANGED << fetchErrors, settledFail, anyFailure >>
          ELSE /\ fetchErrors' = fetchErrors + 1
               /\ settledFail' = settledFail \cup { p }
               /\ anyFailure' = TRUE
               /\ UNCHANGED << itemsWithInfo, settledOk >>
       /\ fetchCompleted' = fetchCompleted + 1
       /\ promisePool' = promisePool \ { p }
  /\ UNCHANGED << fnVars, envVars, ctlVars, argVars, rangeVars, nextIdx, matchVars, writeVars >>

\* (mutant) the function goes on when the for loop ends, awaiting nothing
AllSettled_LoopDone == pc = "enrich" /\ nextIdx > Len(allItems)

\* Promise.all(allPromises) has resolved
AllSettled == pc = "enrich" /\ nextIdx > Len(allItems) /\ promisePool = {}

\* ------------------------------------------------------------------------
\* runExport: entry (lines 441-455) and snapshot build (lines 524-574)
\* ------------------------------------------------------------------------

\* the date ranges of the export form, as (startMs, endMs) in milliseconds:
\* the days around the library, the single instant of item 2, a range that
\* starts on 1970-01-01, one that starts before 10^12 ms, one without items
DateRanges ==
  { << Base - Kilo, Base + Kilo - 1 >>,
    << Base + 1, Base + 1 >>,
    << 0, Base + Kilo - 1 >>,
    << E12 \div 2, Base + Kilo - 1 >>,
    << Base + 3, Base + Kilo - 1 >> }

ExportBegin ==
  /\ pc = "idle" /\ done = {}
  /\ \E r \in DateRanges :
       /\ startMs' = Fx(r[1]) /\ endMs' = Fx(r[2])
       /\ ResetLocals
       /\ currentTs' = Some(r[2])
  /\ run' = "export" /\ pc' = "list" /\ outcome' = "running"
  /\ uniquePhotos' = {}
  /\ UNCHANGED << fnVars, envVars, done, argVars, anyFailure >>

\* albums[albumName].push(row), creating the list on first use
PushRow(entries, name, row) ==
  IF \E k \in 1..Len(entries) : entries[k].name = name
  THEN [ k \in 1..Len(entries) |->
           IF entries[k].name = name
           THEN Entry(name, Append(entries[k].photos, row))
           ELSE entries[k] ]
  ELSE Append(entries, Entry(name, << row >>))

RECURSIVE PushRows(_, _, _)
PushRows(entries, names, row) ==
  IF names = << >> THEN entries
  ELSE PushRows(PushRow(entries, names[1], row), Tail(names), row)

\* (mutant) the rows carry the normalized timestamp
RECURSIVE BuildAlbums_Normalized(_, _)
BuildAlbums_Normalized(entries, infos) ==
  IF infos = << >> THEN entries
  ELSE BuildAlbums_Normalized(
         PushRows(entries, SelectSeq(infos[1].albums, LAMBDA t : t # ""),
                  << infos[1].fileName, normalizeToMs(Fx(infos[1].timestamp)) \div Kilo >>),
         Tail(infos))

\* the albums object built from the enriched items
RECURSIVE BuildAlbums(_, _)
BuildAlbums(entries, infos) ==
  IF infos = << >> THEN entries
  ELSE BuildAlbums(
         PushRows(entries, SelectSeq(infos[1].albums, LAMBDA t : t # ""),
                  << infos[1].fileName, infos[1].timestamp >>),
         Tail(infos))

BuildSnapshot ==
  /\ AllSettled /\ run = "export"
  /\ exportFile' = Some(Snapshot(Some(startMs \div Kilo), Some(endMs \div Kilo),
                                 Some(BuildAlbums(<< >>, itemsWithInfo))))
  /\ Return("exported")
  /\ UNCHANGED << fnVars, envVars, jsonData, matchMode, rangeVars, enrichVars, matchVars, writeVars,
                  anyFailure >>

\* ------------------------------------------------------------------------
\* runImport: matching (lines 738-808)
\* ------------------------------------------------------------------------

\* (mutant) the lookup holds a single reference per key
Lookup_FirstOnly(mode, infos, key) ==
  LET sel == SelectSeq(infos, LAMBDA it : KeyOf(mode, it.fileName, it.timestamp) = key)
  IN IF sel = << >> THEN << >> ELSE << sel[1].mediaKey >>

\* (mutant) the lookup keyed by fileName|timestamp whatever the mode
Lookup_ExactKey(mode, infos, key) ==
  LET sel == SelectSeq(infos, LAMBDA it : KeyOf("exact", it.fileName, it.timestamp) = key)
  IN [ j \in 1..Len(sel) |-> sel[j].mediaKey ]

\* photoLookup.get(key): the mediaKeys of the enriched items that derive key
Lookup(mode, infos, key) ==
  LET sel == SelectSeq(infos, LAMBDA it : KeyOf(mode, it.fileName, it.timestamp) = key)
  IN [ j \in 1..Len(sel) |-> sel[j].mediaKey ]

\* (mutant) the mediaKeys are stored as pushed
Dedup_Identity(s) == s

\* [...new Set(s)]: first occurrences, in order.  The sequence v and the
\* deduplicated prefix r are bound as values, each computed once.
RECURSIVE Dedup(_)
Dedup(s) ==
  CHOOSE d \in { IF v = << >> THEN << >>
                 ELSE CHOOSE e \in { IF v[Len(v)] \in Range(r) THEN r ELSE Append(r, v[Len(v)]) :
                                      r \in { Dedup(SubSeq(v, 1, Len(v) - 1)) } } : TRUE :
                 v \in { s } } : TRUE

\* the mediaKeys pushed for one album entry, before deduplication
MediaKeysOf(mode, infos, photos) ==
  Flatten([ j \in 1..Len(photos) |-> Lookup(mode, infos, RowKey(mode, photos[j])) ])

\* (mutant) the entries without mediaKeys are planned too
Plan_KeepEmpty(mode, albumEntries, infos) ==
  [ k \in 1..Len(albumEntries) |->
      [ name |-> albumEntries[k].name,
        mediaKeys |-> Dedup(MediaKeysOf(mode, infos, albumEntries[k].photos)) ] ]

\* albumToPhotos: the entries with at least one mediaKey, deduplicated
Plan(mode, albumEntries, infos) ==
  LET all == [ k \in 1..Len(albumEntries) |->
                 [ name |-> albumEntries[k].name,
                   mediaKeys |-> Dedup(MediaKeysOf(mode, infos, albumEntries[k].photos)) ] ]
  IN SelectSeq(all, LAMBDA e : e.mediaKeys # << >>)

MatchedKeys(mode, albumEntries, infos) ==
  { RowKey(mode, r) : r \in { q \in Range(Rows(albumEntries)) :
       Lookup(mode, infos, RowKey(mode, q)) # << >> } }

\* (mutant) every key of the snapshot is marked unresolved
NotFoundKeys_Every(mode, albumEntries, infos) ==
  { RowKey(mode, r) : r \in Range(Rows(albumEntries)) }

NotFoundKeys(mode, albumEntries, infos) ==
  { RowKey(mode, r) : r \in { q \in Range(Rows(albumEntries)) :
       Lookup(mode, infos, RowKey(mode, q)) = << >> } }

\* (mutant) every planned album is created, cached or not
AlbumsToCreate_All(plan, cache) ==
  [ k \in 1..Len(plan) |-> plan[k].name ]

\* [...albumToPhotos.keys()].filter(name => !albumCache.has(name))
AlbumsToCreate(plan, cache) ==
  SelectSeq([ k \in 1..Len(plan) |-> plan[k].name ], LAMBDA name : name \notin DOMAIN cache)

Match ==
  /\ AllSettled /\ run = "import"
  /\ LET plan == Plan(matchMode, jsonData.albums[1], itemsWithInfo)
         toCreate == AlbumsToCreate(plan, albumCache)
     IN /\ albumToPhotos' = plan
        /\ matchedPhotos' = MatchedKeys(matchMode, jsonData.albums[1], itemsWithInfo)
        /\ notFoundPhotos' = NotFoundKeys(matchMode, jsonData.albums[1], itemsWithInfo)
        /\ IF plan = << >>
           THEN /\ pc' = "idle" /\ done' = done \cup { run } /\ outcome' = "noAlbums"
                /\ UNCHANGED albumsToCreate
           ELSE /\ albumsToCreate' = toCreate
                /\ pc' = IF toCreate = << >> THEN "add" ELSE "create"
                /\ UNCHANGED << done, outcome >>
  /\ UNCHANGED << fnVars, envVars, run, argVars, rangeVars, enrichVars, uniquePhotos, albumCache,
                  createIdx, createdCount, albumIdx, batchIdx, successCount, errorCount,
                  createCalls, addCalls, addInFlight, report, anyFailure >>

\* ------------------------------------------------------------------------
\* runImport: album creation (lines 810-826)
\* ------------------------------------------------------------------------

\* (mutant) createAlbum awaited outside try/catch: a rejection ends the run
CreateAlbum_NoCatch ==
  /\ pc = "create"
  /\ LET albumName == albumsToCreate[createIdx]
     IN \E ok \in BOOLEAN :
          /\ createCalls' = Append(createCalls, [ title |-> albumName, ok |-> ok ])
          /\ IF ok
             THEN /\ remoteAlbums' = Append(remoteAlbums,
                       [ title |-> albumName, isShared |-> FALSE, items |-> {} ])
                  /\ albumCache' = [ t \in DOMAIN albumCache \cup { albumName } |->
                       IF t = albumName
                       THEN [ mediaKey |-> Len(remoteAlbums) + 1, isShared |-> FALSE ]
                       ELSE albumCache[t] ]
                  /\ createdCount' = createdCount + 1
                  /\ createIdx' = createIdx + 1
                  /\ pc' = IF createIdx' > Len(albumsToCreate) THEN "add" ELSE "create"
                  /\ UNCHANGED << anyFailure, done, outcome >>
             ELSE /\ anyFailure' = TRUE
                  /\ pc' = "idle" /\ done' = done \cup { run } /\ outcome' = "threw"
                  /\ UNCHANGED << remoteAlbums, albumCache, createdCount, createIdx >>
  /\ UNCHANGED << fnVars, albumsAtStart, run, argVars, rangeVars, enrichVars,
                  matchVars, albumsToCreate, albumIdx, batchIdx, successCount, errorCount,
                  addCalls, addInFlight, report >>

CreateAlbum ==
  /\ pc = "create"
  /\ LET albumName == albumsToCreate[createIdx]
     IN \E ok \in BOOLEAN :
          /\ createCalls' = Append(createCalls, [ title |-> albumName, ok |-> ok ])
          /\ IF ok
             THEN /\ remoteAlbums' = Append(remoteAlbums,
                       [ title |-> albumName, isShared |-> FALSE, items |-> {} ])
                  /\ albumCache' = [ t \in DOMAIN albumCache \cup { albumName } |->
                       IF t = albumName
                       THEN [ mediaKey |-> Len(remoteAlbums) + 1, isShared |-> FALSE ]
                       ELSE albumCache[t] ]
                  /\ createdCount' = createdCount + 1
                  /\ UNCHANGED anyFailure
             ELSE /\ anyFailure' = TRUE
                  /\ UNCHANGED << remoteAlbums, albumCache, createdCount >>
  /\ createIdx' = createIdx + 1
  /\ pc' = IF createIdx' > Len(albumsToCreate) THEN "add" ELSE "create"
  /\ UNCHANGED << fnVars, albumsAtStart, run, done, outcome, argVars, rangeVars, enrichVars,
                  matchVars, albumsToCreate, albumIdx, batchIdx, successCount, errorCount,
                  addCalls, addInFlight, report >>

\* ------------------------------------------------------------------------
\* runImport: membership writes and summary (lines 828-878)
\* ------------------------------------------------------------------------

\* the batches of a mediaKeys list: slices of BATCH_SIZE
Batches(mediaKeys) ==
  [ b \in 1..((Len(mediaKeys) + BATCH_SIZE - 1) \div BATCH_SIZE) |->
      SubSeq(mediaKeys, (b - 1) * BATCH_SIZE + 1,
             IF b * BATCH_SIZE < Len(mediaKeys) THEN b * BATCH_SIZE ELSE Len(mediaKeys)) ]

\* (mutant) a skipped album counts as one error
SkipAlbum_CountsOne ==
  /\ pc = "add" /\ albumIdx <= Len(albumToPhotos)
  /\ albumToPhotos[albumIdx].name \notin DOMAIN albumCache
  /\ errorCount' = errorCount + 1
  /\ albumIdx' = albumIdx + 1
  /\ UNCHANGED << fnVars, envVars, ctlVars, argVars, rangeVars, enrichVars, matchVars, albumCache,
                  albumsToCreate, createIdx, createdCount, batchIdx, successCount,
                  createCalls, addCalls, addInFlight, report, anyFailure >>

\* the album has no cache entry: its items are counted as errors
SkipAlbum ==
  /\ pc = "add" /\ albumIdx <= Len(albumToPhotos)
  /\ albumToPhotos[albumIdx].name \notin DOMAIN albumCache
  /\ errorCount' = errorCount + Len(albumToPhotos[albumIdx].mediaKeys)
  /\ albumIdx' = albumIdx + 1
  /\ UNCHANGED << fnVars, envVars, ctlVars, argVars, rangeVars, enrichVars, matchVars, albumCache,
                  albumsToCreate, createIdx, createdCount, batchIdx, successCount,
                  createCalls, addCalls, addInFlight, report, anyFailure >>

\* (mutant) every chunk is sent with addItemsToAlbum
NextCall_NeverShared ==
  LET albumName == albumToPhotos[albumIdx].name
      albumInfo == albumCache[albumName]
      batches == Batches(albumToPhotos[albumIdx].mediaKeys)
  IN [ name |-> albumName, mediaKey |-> albumInfo.mediaKey, shared |-> FALSE,
       batch |-> batches[batchIdx + Len(addInFlight)] ]

\* the call of the current batch of the current album
NextCall ==
  LET albumName == albumToPhotos[albumIdx].name
      albumInfo == albumCache[albumName]
      batches == Batches(albumToPhotos[albumIdx].mediaKeys)
  IN [ name |-> albumName, mediaKey |-> albumInfo.mediaKey, shared |-> albumInfo.isShared,
       batch |-> batches[batchIdx + Len(addInFlight)] ]

\* (mutant) the add call is not awaited: the next batch is issued at once
IssueAdd_NoAwait ==
  /\ pc = "add" /\ albumIdx <= Len(albumToPhotos)
  /\ albumToPhotos[albumIdx].name \in DOMAIN albumCache
  /\ batchIdx + Len(addInFlight) <= Len(Batches(albumToPhotos[albumIdx].mediaKeys))
  /\ addInFlight' = Append(addInFlight, NextCall)
  /\ UNCHANGED << fnVars, envVars, ctlVars, argVars, rangeVars, enrichVars, matchVars, albumCache,
                  albumsToCreate, createIdx, createdCount, albumIdx, batchIdx, successCount,
                  errorCount, createCalls, addCalls, report, anyFailure >>

\* addItemsToAlbum or addItemsToSharedAlbum is called with the current batch
\* and awaited
IssueAdd ==
  /\ pc = "add" /\ albumIdx <= Len(albumToPhotos)
  /\ albumToPhotos[albumIdx].name \in DOMAIN albumCache
  /\ addInFlight = << >>
  /\ addInFlight' = Append(addInFlight, NextCall)
  /\ UNCHANGED << fnVars, envVars, ctlVars, argVars, rangeVars, enrichVars, matchVars, albumCache,
                  albumsToCreate, createIdx, createdCount, albumIdx, batchIdx, successCount,
                  errorCount, createCalls, addCalls, report, anyFailure >>

\* (mutant) a failed batch ends the album: its later batches are not sent
AddBatch_BreakOnError ==
  /\ pc = "add" /\ addInFlight # << >>
  /\ LET call == Head(addInFlight)
         batches == Batches(albumToPhotos[albumIdx].mediaKeys)
     IN \E ok \in BOOLEAN :
          /\ addCalls' = Append(addCalls,
               [ name |-> call.name, mediaKey |-> call.mediaKey,
                 shared |-> call.shared, batch |-> call.batch, ok |-> ok ])
          /\ addInFlight' = Tail(addInFlight)
          /\ IF ok
             THEN /\ remoteAlbums' = [ remoteAlbums EXCEPT ![call.mediaKey].items =
                                         @ \cup Range(call.batch) ]
                  /\ successCount' = successCount + Len(call.batch)
                  /\ UNCHANGED << errorCount, anyFailure >>
             ELSE /\ errorCount' = errorCount + Len(call.batch)
                  /\ anyFailure' = TRUE
                  /\ UNCHANGED << remoteAlbums, successCount >>
          /\ IF ok /\ batchIdx < Len(batches)
             THEN /\ batchIdx' = batchIdx + 1 /\ UNCHANGED albumIdx
             ELSE /\ batchIdx' = 1 /\ albumIdx' = albumIdx + 1
  /\ UNCHANGED << fnVars, albumsAtStart, ctlVars, argVars, rangeVars, enrichVars, matchVars,
                  albumCache, albumsToCreate, createIdx, createdCount, createCalls, report >>

\* the awaited add call settles: the batch is counted as added or as errors
\* and the loop moves to the next batch
AddBatch ==
  /\ pc = "add" /\ addInFlight # << >>
  /\ LET call == Head(addInFlight)
         batches == Batches(albumToPhotos[albumIdx].mediaKeys)
     IN /\ \E ok \in BOOLEAN :
             /\ addCalls' = Append(addCalls,
                  [ name |-> call.name, mediaKey |-> call.mediaKey,
                    shared |-> call.shared, batch |-> call.batch, ok |-> ok ])
             /\ IF ok
                THEN /\ remoteAlbums' = [ remoteAlbums EXCEPT ![call.mediaKey].items =
                                            @ \cup Range(call.batch) ]
                     /\ successCount' = successCount + Len(call.batch)
                     /\ UNCHANGED << errorCount, anyFailure >>
                ELSE /\ errorCount' = errorCount + Len(call.batch)
                     /\ anyFailure' = TRUE
                     /\ UNCHANGED << remoteAlbums, successCount >>
        /\ addInFlight' = Tail(addInFlight)
        /\ IF batchIdx < Len(batches)
           THEN /\ batchIdx' = batchIdx + 1 /\ UNCHANGED albumIdx
           ELSE /\ batchIdx' = 1 /\ albumIdx' = albumIdx + 1
  /\ UNCHANGED << fnVars, albumsAtStart, ctlVars, argVars, rangeVars, enrichVars, matchVars,
                  albumCache, albumsToCreate, createIdx, createdCount, createCalls, report >>

Summary ==
  /\ pc = "add" /\ albumIdx > Len(albumToPhotos)
  /\ report' = Some([ albumsInJson |-> Len(jsonData.albums[1]),
                      uniquePhotos |-> Cardinality(uniquePhotos),
                      matched |-> Cardinality(matchedPhotos),
                      notFound |-> Cardinality(notFoundPhotos),
                      albumsProcessed |-> Len(albumToPhotos),
                      albumsCreated |-> createdCount,
                      photosAdded |-> successCount,
                      errors |-> errorCount ])
  /\ Return("summary")
  /\ UNCHANGED << fnVars, envVars, argVars, rangeVars, enrichVars, matchVars, albumCache,
                  albumsToCreate, createIdx, createdCount, albumIdx, batchIdx, successCount,
                  errorCount, createCalls, addCalls, addInFlight, anyFailure >>

\* the page is closed or reloaded while runImport, having created an album,
\* has not yet added an item; what it created stays in the library.  (An
\* interruption before any creation leaves the library as it was, and the
\* next run is the run of a fresh session.)
Interrupt ==
  /\ run = "import" /\ pc \in { "create", "add" }
  /\ createdCount > 0 /\ addCalls = << >> /\ addInFlight = << >>
  /\ "interrupted" \notin done
  /\ pc' = "idle" /\ outcome' = "interrupted" /\ done' = done \cup { "interrupted" }
  /\ UNCHANGED << fnVars, envVars, run, argVars, rangeVars, enrichVars, matchVars, writeVars,
                  anyFailure >>

\* ------------------------------------------------------------------------
\* Specification
\* ------------------------------------------------------------------------

Next ==
  \/ ExportBegin
  \/ ImportBegin
  \/ GetAlbums
  \/ FetchPage
  \/ ListingThrows
  \/ StartFetch
  \/ SettleFetch
  \/ BuildSnapshot
  \/ Match
  \/ CreateAlbum
  \/ SkipAlbum
  \/ IssueAdd
  \/ AddBatch
  \/ Summary
  \/ Interrupt

Spec == Init /\ [][Next]_vars

\* ------------------------------------------------------------------------
\* The runs under a scheduler that lets every started step finish
\* ------------------------------------------------------------------------

\* a step of the run in progress: a remote call settles, or the function goes
\* on to its next statement
Progress ==
  \/ GetAlbums \/ FetchPage \/ StartFetch \/ SettleFetch \/ BuildSnapshot \/ Match
  \/ CreateAlbum \/ SkipAlbum \/ IssueAdd \/ AddBatch \/ Summary

\* every remote call that is pending settles and the function goes on when it
\* can; starting a run, an interruption and a rejected listing call are left
\* to the environment
Fairness == WF_vars(Progress)

SpecLive == Init /\ [][Next]_vars /\ Fairness

\* ------------------------------------------------------------------------
\* normalizeToMs on its own
\* ------------------------------------------------------------------------

\* timestamps around every power of Kilo up to Kilo^6, in each unit class and
\* on both sides of each threshold, zero and a date before 1970
Timestamps ==
  { m * Kilo ^ e + d : m \in { 0, 1, 2, 5 }, e \in 1..6, d \in { -1, 0, 1 } }

\* how many times the function is applied in a row
MaxApplications == 2

InitFn ==
  /\ remoteAlbums = AlbumsLost
  /\ InitRun
  /\ tsIn \in Timestamps /\ tsOut = << >> /\ keys = None

\* normalizeToMs is applied to the timestamp, then to its own result
Normalize ==
  /\ Len(tsOut) < MaxApplications
  /\ tsOut' = Append(tsOut, normalizeToMs(IF tsOut = << >> THEN Fx(tsIn)
                                          ELSE tsOut[Len(tsOut)]))
  /\ UNCHANGED << envVars, ctlVars, argVars, rangeVars, enrichVars, matchVars, writeVars,
                  anyFailure, tsIn, keys >>

\* a timestamp in seconds, one in milliseconds and one in microseconds that lie
\* d milliseconds and d microseconds inside the whole second s
SameSecond(s, d) == << s, s * Kilo + d, (s * Kilo + d) * Kilo + d >>

\* the key of the record ("a.jpg", ts) is derived under every policy, for
\* three timestamps of the whole second tsIn (seconds up to Base, twice the
\* largest value read as seconds)
DeriveKeys ==
  /\ keys = None /\ tsIn <= Base
  /\ \E d \in { 0, Kilo - 1 } :
       keys' = Some([ ts |-> SameSecond(tsIn, d),
                      key |-> [ m \in Modes |->
                                  [ u \in 1..3 |-> KeyOf(m, "a.jpg", SameSecond(tsIn, d)[u]) ] ] ])
  /\ UNCHANGED << envVars, ctlVars, argVars, rangeVars, enrichVars, matchVars, writeVars,
                  anyFailure, tsIn, tsOut >>

NextFn ==
  \/ Normalize
  \/ DeriveKeys

SpecFn == InitFn /\ [][NextFn]_vars

\* ------------------------------------------------------------------------
\* Properties
\* ------------------------------------------------------------------------

\* runImport has returned after finding items, its listing calls having succeeded
ImportEndedWithItems ==
  /\ run = "import" /\ pc = "idle" /\ "import" \in done
  /\ outcome \notin { "invalid", "listingThrew" }
  /\ allItems # << >>

\* C1 as claimed: every run of runImport that passes validation and finds at
\* least one item in range ends with the final summary report.
C1_AsClaimed ==
  ImportEndedWithItems => (outcome = "summary" /\ report # None)

\* C1 (amended): every run of runImport that passes validation, finds at least
\* one item in range and plans at least one album ends with the final summary
\* report, whatever detail fetches, album creations and membership writes
\* fail; the report carries the run's counters.
C1_SummaryWhenPlanned ==
  (ImportEndedWithItems /\ albumToPhotos # << >>) =>
     /\ outcome = "summary"
     /\ report # None
     /\ report[1].albumsProcessed = Len(albumToPhotos)
     /\ report[1].albumsCreated = createdCount
     /\ report[1].photosAdded = successCount
     /\ report[1].errors = errorCount

\* a summary of a run in which a fetch, a creation and every write failed
C1_Witness ==
  /\ ImportEndedWithItems /\ outcome = "summary" /\ report # None
  /\ fetchErrors > 0
  /\ \E k \in 1..Len(createCalls) : ~createCalls[k].ok
  /\ addCalls # << >> /\ \A k \in 1..Len(addCalls) : ~addCalls[k].ok
  /\ report[1].photosAdded = 0 /\ report[1].errors > 0

\* C2: in runExport and in runImport, the fetches started and not yet settled
\* never exceed MAX_CONCURRENT_REQUESTS.
C2_PoolBounded ==
  Cardinality(promisePool) <= MAX_CONCURRENT_REQUESTS

\* the pool is full while an item waits to be fetched
C2_Witness ==
  /\ pc = "enrich" /\ run = "import"
  /\ Cardinality(promisePool) = MAX_CONCURRENT_REQUESTS
  /\ nextIdx <= Len(allItems)

\* the entries of itemsWithInfo that carry the item fetched by promise p
EntriesOf(p) == { k \in 1..Len(itemsWithInfo) : itemsWithInfo[k].mediaKey = allItems[p] }

\* the enrichment stage of the run has finished
EnrichmentOver ==
  /\ pc \notin { "list", "albums" } /\ allItems # << >>
  /\ nextIdx > Len(allItems) /\ promisePool = {}

\* C3: the enrichment holds exactly one entry for each item whose fetch
\* resolved and none for an item whose fetch rejected, logs one error per
\* rejected fetch, and when it finishes every input item has been fetched:
\* entries + errors = input items.
C3_EnrichmentCompleteness ==
  /\ \A p \in settledOk : Cardinality(EntriesOf(p)) = 1
  /\ \A p \in settledFail : EntriesOf(p) = {}
  /\ Len(itemsWithInfo) = Cardinality(settledOk)
  /\ fetchErrors = Cardinality(settledFail)
  /\ EnrichmentOver =>
       /\ settledOk \cup settledFail = 1..Len(allItems)
       /\ Len(itemsWithInfo) + fetchErrors = Len(allItems)

\* two fetches failed, one of them before a fetch that succeeded
C3_Witness ==
  /\ EnrichmentOver /\ Len(allItems) >= 3
  /\ fetchErrors = 2 /\ Len(itemsWithInfo) = Len(allItems) - 2
  /\ \E p \in settledFail, q \in settledOk : p < q

\* C4: every accumulated item has its normalized timestamp in
\* [startMs, endMs], bounds included; with startMs = endMs = T the range
\* fetch returns the items at T and no other.
C4_InRange ==
  /\ \A k \in 1..Len(allItems) :
        startMs <= ItemMs(allItems[k]) /\ ItemMs(allItems[k]) <= endMs
  /\ (loopExit.how # "none" /\ startMs = endMs) =>
        Range(allItems) = { i \in ItemIds : ItemMs(i) = startMs }

\* the library has items at T - 1, T and T + 1; only the item at T is kept
C4_Witness ==
  /\ run = "export" /\ loopExit.how = "break"
  /\ startMs = Fx(Base + 1) /\ endMs = Fx(Base + 1)
  /\ { Fx(Base), Fx(Base + 1), Fx(Base + 2) } \subseteq { ItemMs(i) : i \in ItemIds }
  /\ allItems = << 2 >>

\* the page's lastItemTimestamp, normalized, is below lo
BelowStart(page, lo) ==
  /\ page.lastItemTimestamp # None
  /\ normalizeToMs(Fx(page.lastItemTimestamp[1])) < lo

UniqueCount(mode) == Cardinality(UniqueKeys(mode, jsonData.albums[1]))
MatchedCount(mode) == Cardinality(MatchedKeys(mode, jsonData.albums[1], itemsWithInfo))
NotFoundCount(mode) == Cardinality(NotFoundKeys(mode, jsonData.albums[1], itemsWithInfo))

\* runImport is about to match: snapshot and enriched items are fixed
ReadyToMatch == AllSettled /\ run = "import"

\* C6 as claimed: for the same snapshot and item set the matched counts are
\* weakly increasing from exact to seconds to filename.
C6_AsClaimed ==
  ReadyToMatch =>
     /\ MatchedCount("exact") <= MatchedCount("seconds")
     /\ MatchedCount("seconds") <= MatchedCount("filename")

\* C6 (amended): for the same snapshot and item set the not-found counts are
\* weakly decreasing from exact to seconds to filename; the matched counts are
\* weakly increasing when no looser policy merges two keys of the snapshot
\* (the three policies derive the same number of unique keys).
C6_CountsByPolicy ==
  ReadyToMatch =>
     /\ NotFoundCount("exact") >= NotFoundCount("seconds")
     /\ NotFoundCount("seconds") >= NotFoundCount("filename")
     /\ (UniqueCount("exact") = UniqueCount("filename")) =>
           /\ MatchedCount("exact") <= MatchedCount("seconds")
           /\ MatchedCount("seconds") <= MatchedCount("filename")

\* no keys merge and the looser policy matches strictly more
C6_Witness ==
  /\ ReadyToMatch
  /\ UniqueCount("exact") = UniqueCount("filename")
  /\ MatchedCount("exact") < MatchedCount("seconds")

\* the import of the file this session's export wrote has returned and no
\* remote call of the session failed
RoundTripDone ==
  /\ run = "import" /\ pc = "idle" /\ "import" \in done
  /\ exportFile # None /\ jsonData = exportFile[1]
  /\ ~anyFailure

\* album k received item i in a successful add call of the run
Added(k, i) ==
  \E c \in 1..Len(addCalls) :
     addCalls[c].ok /\ addCalls[c].mediaKey = k /\ i \in Range(addCalls[c].batch)

\* item i is inside the date range the exported file records
InExportedRange(i) ==
  /\ Fx(exportFile[1].start_timestamp[1]) <= ItemMs(i)
  /\ ItemMs(i) <= Fx(exportFile[1].end_timestamp[1])

\* C7 as claimed: importing the exported snapshot into the unchanged library,
\* every remote call succeeding, adds to each album every item of the date
\* range that belonged to it at export time, for every date range and mode.
C7_RoundTrip ==
  RoundTripDone =>
     \A k \in 1..Len(albumsAtStart) : \A i \in albumsAtStart[k].items :
        InExportedRange(i) => Added(k, i)

TitlesAtStart == { albumsAtStart[k].title : k \in 1..Len(albumsAtStart) }

\* the planned titles that the album listing did not return, in plan order
MissingTitles ==
  SelectSeq([ k \in 1..Len(albumToPhotos) |-> albumToPhotos[k].name ],
            LAMBDA name : name \notin TitlesAtStart)

\* C8: createAlbum is called exactly once, in plan order, for every planned
\* title absent from the album listing and for no other title; a successful
\* call caches the new container under the title with isShared = FALSE, a
\* failed call leaves the title uncached and the next title is still tried.
C8_CreateMissingOnce ==
  (run = "import" /\ (pc \in { "create", "add" } \/ outcome = "summary")) =>
     /\ Len(createCalls) <= Len(MissingTitles)
     /\ \A k \in 1..Len(createCalls) : createCalls[k].title = MissingTitles[k]
     /\ pc # "create" => Len(createCalls) = Len(MissingTitles)
     /\ \A k \in 1..Len(createCalls) :
          LET t == createCalls[k].title
          IN IF createCalls[k].ok
             THEN /\ t \in DOMAIN albumCache
                  /\ albumCache[t].isShared = FALSE
                  /\ albumCache[t].mediaKey > Len(albumsAtStart)
                  /\ remoteAlbums[albumCache[t].mediaKey].title = t
             ELSE t \notin DOMAIN albumCache
     /\ createdCount = Cardinality({ k \in 1..Len(createCalls) : createCalls[k].ok })

\* a creation failed and a later one succeeded
C8_Witness ==
  /\ run = "import" /\ pc = "add"
  /\ \E j, k \in 1..Len(createCalls) : j < k /\ ~createCalls[j].ok /\ createCalls[k].ok

\* sizes of the albums skipped so far and of the batches that failed so far
SkippedSize ==
  SumSeq([ k \in 1..(albumIdx - 1) |->
             IF albumToPhotos[k].name \in DOMAIN albumCache THEN 0
             ELSE Len(albumToPhotos[k].mediaKeys) ])
FailedSize == SumSeq([ c \in 1..Len(addCalls) |->
                         IF addCalls[c].ok THEN 0 ELSE Len(addCalls[c].batch) ])
AddedSize == SumSeq([ c \in 1..Len(addCalls) |->
                        IF addCalls[c].ok THEN Len(addCalls[c].batch) ELSE 0 ])

\* C9: no add call is made for a planned album that has no container in the
\* cache (its creation failed); each such album adds the number of its
\* deduplicated items to the error count, and the albums after it are still
\* processed.
C9_UncachedAlbumCounted ==
  run = "import" =>
     /\ \A c \in 1..Len(addCalls) : addCalls[c].name \in DOMAIN albumCache
     /\ \A k \in 1..Len(createCalls) : \A c \in 1..Len(addCalls) :
          ~createCalls[k].ok => addCalls[c].name # createCalls[k].title
     /\ errorCount = SkippedSize + FailedSize
     /\ outcome = "summary" =>
          /\ albumIdx = Len(albumToPhotos) + 1
          /\ \A k \in 1..Len(albumToPhotos) :
               albumToPhotos[k].name \in DOMAIN albumCache =>
                 \E c \in 1..Len(addCalls) : addCalls[c].name = albumToPhotos[k].name

\* an album of several items was skipped and a later album received its items
C9_Witness ==
  /\ run = "import" /\ outcome = "summary"
  /\ \E j, k \in 1..Len(albumToPhotos) :
       /\ j < k
       /\ albumToPhotos[j].name \notin DOMAIN albumCache
       /\ Len(albumToPhotos[j].mediaKeys) >= 2
       /\ \E c \in 1..Len(addCalls) : addCalls[c].ok /\ addCalls[c].name = albumToPhotos[k].name

\* the batches sent for the album, in call order
BatchesSent(name) ==
  LET sel == SelectSeq(addCalls, LAMBDA c : c.name = name)
  IN [ j \in 1..Len(sel) |-> sel[j].batch ]

\* C10: when a run with a plan has ended, the batches sent for each planned
\* album with a cached container are exactly its batches, each once and in
\* order, whatever batches failed; photos added is the total size of the
\* successful batches and the errors are the failed batches' sizes plus the
\* skipped albums' sizes.
C10_EveryBatchOnce ==
  (run = "import" /\ pc = "idle" /\ "import" \in done /\ albumToPhotos # << >>) =>
     /\ \A k \in 1..Len(albumToPhotos) :
          albumToPhotos[k].name \in DOMAIN albumCache =>
            BatchesSent(albumToPhotos[k].name) = Batches(albumToPhotos[k].mediaKeys)
     /\ successCount = AddedSize
     /\ errorCount - SkippedSize = FailedSize

\* a batch failed, the next batch of the same album and a later album's batch
\* succeeded
C10_Witness ==
  /\ run = "import" /\ outcome = "summary"
  /\ \E j, k \in 1..Len(addCalls) :
       /\ j + 1 < k
       /\ ~addCalls[j].ok /\ addCalls[j + 1].ok /\ addCalls[j + 1].name = addCalls[j].name
       /\ addCalls[k].ok /\ addCalls[k].name # addCalls[j].name

\* the shape the claim gives the chunks of a list
ChunkShape(list, chunks) ==
  /\ Flatten(chunks) = list
  /\ \A b \in 1..Len(chunks) : Len(chunks[b]) >= 1 /\ Len(chunks[b]) <= BATCH_SIZE
  /\ \A b \in 1..(Len(chunks) - 1) : Len(chunks[b]) = BATCH_SIZE

\* two full chunks and a rest, as 1,234 = 500 + 500 + 234
LongList == [ i \in 1..(2 * BATCH_SIZE + 1) |-> i ]

\* C11: the batches of a list are consecutive slices of at most BATCH_SIZE
\* items, in order, whose concatenation is the list, all but the last full
\* (two batch sizes and one more item give full, full, 1); at most one add call
\* is in flight, and batch k+1 of an album is in flight only when the calls of
\* its batches 1..k have settled, in that order.
C11_ChunksInOrder ==
  /\ \A n \in 0..Len(LongList) :
       ChunkShape(SubSeq(LongList, 1, n), Batches(SubSeq(LongList, 1, n)))
  /\ [ b \in 1..3 |-> Len(Batches(LongList)[b]) ] = << BATCH_SIZE, BATCH_SIZE, 1 >>
  /\ Len(Batches(LongList)) = 3
  /\ \A k \in 1..Len(albumToPhotos) :
       ChunkShape(albumToPhotos[k].mediaKeys, Batches(albumToPhotos[k].mediaKeys))
  /\ Len(addInFlight) <= 1
  /\ addInFlight # << >> =>
       /\ pc = "add" /\ albumIdx <= Len(albumToPhotos)
       /\ addInFlight[1].name = albumToPhotos[albumIdx].name
       /\ addInFlight[1].batch = Batches(albumToPhotos[albumIdx].mediaKeys)[batchIdx]
  /\ (pc = "add" /\ albumIdx <= Len(albumToPhotos)
        /\ albumToPhotos[albumIdx].name \in DOMAIN albumCache) =>
       BatchesSent(albumToPhotos[albumIdx].name) =
         SubSeq(Batches(albumToPhotos[albumIdx].mediaKeys), 1, batchIdx - 1)

\* the second batch of an album is in flight, the first having failed
C11_Witness ==
  /\ pc = "add" /\ addInFlight # << >> /\ batchIdx = 2
  /\ Len(addInFlight[1].batch) < BATCH_SIZE
  /\ addCalls # << >> /\ ~addCalls[Len(addCalls)].ok
  /\ addCalls[Len(addCalls)].name = addInFlight[1].name
  /\ Len(addCalls[Len(addCalls)].batch) = BATCH_SIZE

NoDuplicates(s) == \A i, j \in 1..Len(s) : s[i] = s[j] => i = j

\* every item reference handed to the add calls of the album in this run,
\* settled or in flight
SentTo(name) ==
  Flatten(BatchesSent(name)) \o
  Flatten([ c \in 1..Len(addInFlight) |->
              IF addInFlight[c].name = name THEN addInFlight[c].batch ELSE << >> ])

\* C12: in every argument list of an add call, and across all batches of one
\* album in one run, each item reference appears at most once, even when the
\* snapshot repeats a row under the album or several rows resolve to one item.
C12_NoItemTwice ==
  run = "import" =>
     /\ \A c \in 1..Len(addCalls) : NoDuplicates(addCalls[c].batch)
     /\ \A k \in 1..Len(albumToPhotos) :
          /\ NoDuplicates(albumToPhotos[k].mediaKeys)
          /\ NoDuplicates(SentTo(albumToPhotos[k].name))

\* the entry of the snapshot with that album name
EntryOf(name) ==
  jsonData.albums[1][CHOOSE k \in 1..Len(jsonData.albums[1]) : jsonData.albums[1][k].name = name]

\* the rows of an album resolved to the same item several times and its
\* batches have all been sent
C12_Witness ==
  /\ run = "import" /\ outcome = "summary"
  /\ \E k \in 1..Len(albumToPhotos) :
       LET pushed == MediaKeysOf(matchMode, itemsWithInfo, EntryOf(albumToPhotos[k].name).photos)
       IN /\ Len(pushed) >= Len(albumToPhotos[k].mediaKeys) + 2
          /\ Range(SentTo(albumToPhotos[k].name)) = Range(pushed)
          /\ Len(BatchesSent(albumToPhotos[k].name)) = 2

\* matching has been done in the run
Matched ==
  /\ run = "import"
  /\ pc \in { "create", "add" } \/ (pc = "idle" /\ outcome \in { "noAlbums", "summary" })

\* the albums of the snapshot none of whose rows resolves to an enriched item
Unresolved ==
  { jsonData.albums[1][k].name : k \in { j \in 1..Len(jsonData.albums[1]) :
      MediaKeysOf(matchMode, itemsWithInfo, jsonData.albums[1][j].photos) = << >> } }

\* C13: an album of the snapshot none of whose rows resolves to a current item
\* is not in the plan, is not created and receives no membership write.
C13_UnresolvedAlbumUntouched ==
  Matched =>
     \A name \in Unresolved :
        /\ \A k \in 1..Len(albumToPhotos) : albumToPhotos[k].name # name
        /\ \A k \in 1..Len(albumsToCreate) : albumsToCreate[k] # name
        /\ \A c \in 1..Len(createCalls) : createCalls[c].title # name
        /\ \A c \in 1..Len(addCalls) : addCalls[c].name # name
        /\ \A c \in 1..Len(addInFlight) : addInFlight[c].name # name
        /\ \A k \in 1..Len(remoteAlbums) :
             remoteAlbums[k].title = name =>
               /\ k <= Len(albumsAtStart)
               /\ remoteAlbums[k] = albumsAtStart[k]

\* a run that created an album and wrote to an album left an unresolved
\* album of the snapshot alone, one that exists and one that does not
C13_Witness ==
  /\ Matched /\ outcome = "summary"
  /\ createdCount > 0 /\ successCount > 0
  /\ \E name \in Unresolved : name \in TitlesAtStart
  /\ \E name \in Unresolved : name \notin TitlesAtStart

\* the run in progress, or the last run, follows an interrupted run and its
\* album listing has returned
RerunListed ==
  /\ run = "import" /\ "interrupted" \in done /\ outcome # "interrupted"
  /\ pc \in { "list", "enrich", "create", "add" }
       \/ (pc = "idle" /\ outcome \in { "noItems", "noAlbums", "summary" })

\* C14: over the runs of a session createAlbum succeeds at most once per
\* title (no two albums of the library share a title); a run that follows an
\* interrupted run finds every album the interrupted run created by its title
\* in the album listing and does not call createAlbum for that title.
C14_CreatedOncePerTitle ==
  /\ NoDuplicates([ k \in 1..Len(remoteAlbums) |-> remoteAlbums[k].title ])
  /\ RerunListed =>
       \A k \in 1..Len(albumsAtStart) :
          /\ albumsAtStart[k].title \in DOMAIN albumCache
          /\ albumCache[albumsAtStart[k].title].mediaKey = k
          /\ \A c \in 1..Len(createCalls) : createCalls[c].title # albumsAtStart[k].title

\* the later run wrote items to an album that the interrupted run had
\* created and left empty, and created another album itself
C14_Witness ==
  /\ RerunListed /\ outcome = "summary"
  /\ \E c \in 1..Len(createCalls) : createCalls[c].ok
  /\ \E k \in 1..Len(albumsAtStart) :
       /\ albumsAtStart[k].items = {}
       /\ \E c \in 1..Len(addCalls) :
            addCalls[c].ok /\ addCalls[c].name = albumsAtStart[k].title
                           /\ addCalls[c].mediaKey = k

\* a required field is absent from the file
MissingField(data) ==
  data.start_timestamp = None \/ data.end_timestamp = None \/ data.albums = None

\* the run has made no remote call: nothing listed, fetched, created or added
NoRemoteCall ==
  /\ albumCache = << >>
  /\ listCalls = << >> /\ loopExit = NoExit /\ allItems = << >>
  /\ nextIdx = 1 /\ promisePool = {} /\ settledOk = {} /\ settledFail = {}
  /\ createCalls = << >> /\ addCalls = << >> /\ addInFlight = << >>
  /\ remoteAlbums = albumsAtStart
  /\ ~anyFailure

\* C15: when start_timestamp, end_timestamp or albums is absent from the
\* snapshot, runImport reports the invalid structure and returns without any
\* remote call: no album listing, no item listing, no fetch, creation or write.
C15_MissingFieldRejected ==
  (run = "import" /\ MissingField(jsonData)) =>
     /\ pc = "idle" /\ outcome = "invalid" /\ "import" \in done
     /\ report = None
     /\ NoRemoteCall

\* a file without albums was rejected in a library that has albums
C15_Witness ==
  /\ run = "import" /\ outcome = "invalid"
  /\ jsonData.albums = None /\ jsonData.start_timestamp # None /\ jsonData.end_timestamp # None
  /\ remoteAlbums # << >>

\* a row of the file is not a (fileName, timestamp) pair
WrongShape(data) ==
  /\ data.albums # None
  /\ \E r \in Range(Rows(data.albums[1])) : Len(r) # 2

\* C16 as claimed: a snapshot whose albums, start_timestamp or end_timestamp is
\* present but of the wrong shape is rejected as malformed before any
\* processing.
C16_WrongShapeRejected ==
  (run = "import" /\ WrongShape(jsonData)) =>
     /\ pc = "idle" /\ outcome = "invalid"
     /\ NoRemoteCall

\* the library items inside the requested range
InRange == { i \in ItemIds : startMs <= ItemMs(i) /\ ItemMs(i) <= endMs }

\* runExport has returned (it did not throw)
ExportReturned ==
  run = "export" /\ pc = "idle" /\ "export" \in done /\ outcome # "listingThrew"

\* C17: runExport returns null exactly when the range fetch found no item,
\* which is when the library has no item in the requested range, and then no
\* snapshot file is produced; when at least one item is in the range it
\* returns a snapshot of the requested range.
C17_NullIffNoItems ==
  /\ exportFile # None => "export" \in done
  /\ ExportReturned =>
       /\ outcome \in { "noItems", "exported" }
       /\ outcome = "noItems" <=> allItems = << >>
       /\ allItems = << >> <=> InRange = {}
       /\ outcome = "noItems" => exportFile = None
       /\ outcome = "exported" =>
            /\ exportFile # None
            /\ Fx(exportFile[1].start_timestamp[1]) = startMs
            /\ Fx(exportFile[1].end_timestamp[1]) = endMs
            /\ exportFile[1].albums # None

\* items were found and every detail fetch failed: a snapshot is still returned
C17_Witness ==
  /\ ExportReturned /\ outcome = "exported"
  /\ allItems # << >> /\ itemsWithInfo = << >>
  /\ exportFile # None /\ exportFile[1].albums = Some(<< >>)
  /\ remoteAlbums # << >>

\* normalizeToMs has been applied to tsIn and to its own result
AppliedTwice == Len(tsOut) = 2

\* C18 as claimed: normalizeToMs(normalizeToMs(x)) = normalizeToMs(x) for
\* every timestamp x, whatever its unit.
C18_IdempotentEverywhere ==
  AppliedTwice => tsOut[2] = tsOut[1]

\* the value is in the class the function takes for milliseconds
MsForm(x) == x > E12 /\ x <= E15

\* C19: for a timestamp in milliseconds form (10^12 < x <= 10^15)
\* normalizeToMs returns x, and applied to its result it returns x again.
C19_IdempotentOnMs ==
  (AppliedTwice /\ MsForm(tsIn)) =>
     /\ tsOut[1] = Fx(tsIn)
     /\ tsOut[2] = tsOut[1]

\* the function was applied twice to the largest millisecond value
C19_Witness ==
  AppliedTwice /\ MsForm(tsIn) /\ tsIn = E15

\* every fetch the stage started has settled and the successful results, and
\* only they, are in the output list
EnrichmentComplete ==
  /\ promisePool = {} /\ nextIdx > Len(allItems)
  /\ settledOk \cup settledFail = 1..Len(allItems)
  /\ fetchCompleted = Len(allItems)
  /\ Len(itemsWithInfo) = Cardinality(settledOk)
  /\ { itemsWithInfo[k].mediaKey : k \in 1..Len(itemsWithInfo) } = { allItems[p] : p \in settledOk }

\* C20: the enrichment stage is left (for the snapshot build in export, for
\* the matching in import) only when every detail fetch it started has settled
\* and every successful result is in the output list; outside the stage the
\* output list does not change until the next run starts with an empty one.
C20_HandOverAfterAllSettled ==
  [][ /\ (pc = "enrich" /\ pc' # "enrich") => EnrichmentComplete
      /\ (pc # "enrich" /\ itemsWithInfo' # itemsWithInfo) =>
            (pc = "idle" /\ itemsWithInfo' = << >>) ]_vars

\* the import went on to the write step after more fetches than the pool
\* holds, some of which failed
C20_Witness ==
  /\ run = "import" /\ pc \in { "create", "add" }
  /\ EnrichmentComplete
  /\ Len(allItems) > MAX_CONCURRENT_REQUESTS
  /\ settledFail # {} /\ settledOk # {}

\* the page has no item inside [lo, hi]
NoneInRange(page, lo, hi) == \A k \in 1..Len(page.items) : ~(ItemMs(page.items[k]) >= lo /\ ItemMs(page.items[k]) <= hi)

\* C21 as claimed: no page that has a next-page token and no item inside the
\* range ends the range-fetch loop.
C21_AsClaimed ==
  loopExit.how # "none" =>
     ~(loopExit.page.nextPageId # 0 /\ NoneInRange(loopExit.page, startMs, endMs))

\* C21: a page with a next-page token ends the range-fetch loop only if it has
\* items and its normalized lastItemTimestamp is below startMs; any other page
\* with a token, one without items or without items inside the range included,
\* is followed by a listing call issued with that token.
C21_TokenKeepsLoopGoing ==
  /\ (loopExit.how # "none" /\ loopExit.page.nextPageId # 0) =>
        /\ loopExit.how = "break"
        /\ loopExit.page.items # << >>
        /\ BelowStart(loopExit.page, startMs)
  /\ (pc = "list" /\ listCalls # << >>) =>
        pageId = listCalls[Len(listCalls)].page.nextPageId
  /\ \A k \in 1..(Len(listCalls) - 1) :
        listCalls[k + 1].pageId = listCalls[k].page.nextPageId

\* a page without items and then a page whose only item is newer than the
\* range were returned with tokens, and the next call is about to use the token
C21_Witness ==
  /\ pc = "list" /\ Len(listCalls) = 2
  /\ listCalls[1].page.items = << >> /\ listCalls[1].page.nextPageId # 0
  /\ listCalls[2].page.items # << >>
  /\ NoneInRange(listCalls[2].page, startMs, endMs)
  /\ pageId = listCalls[2].page.nextPageId /\ pageId # 0

\* C22 as claimed: the listing call the range fetch is about to issue has, as
\* the first call of the loop, a null page token and endMs as its time anchor,
\* and as a later call the lastItemTimestamp and nextPageId of the page before;
\* the same holds for the calls already made.
C22_FirstAnchorIsEndMs ==
  /\ pc = "list" =>
        IF listCalls = << >>
        THEN pageId = 0 /\ currentTs # None /\ Fx(currentTs[1]) = endMs
        ELSE LET last == listCalls[Len(listCalls)].page
             IN pageId = last.nextPageId /\ currentTs = last.lastItemTimestamp
  /\ listCalls # << >> =>
        /\ listCalls[1].pageId = 0
        /\ listCalls[1].currentTs # None /\ Fx(listCalls[1].currentTs[1]) = endMs
  /\ \A k \in 1..(Len(listCalls) - 1) :
        /\ listCalls[k + 1].pageId = listCalls[k].page.nextPageId
        /\ listCalls[k + 1].currentTs = listCalls[k].page.lastItemTimestamp

\* the enriched items that derive key under the policy of the run
ItemsFor(key) ==
  { itemsWithInfo[k].mediaKey : k \in { j \in 1..Len(itemsWithInfo) :
      KeyOf(matchMode, itemsWithInfo[j].fileName, itemsWithInfo[j].timestamp) = key } }

\* the item references planned for the album, none if it is not planned
PlanOf(name) ==
  UNION { Range(albumToPhotos[k].mediaKeys) : k \in { j \in 1..Len(albumToPhotos) :
            albumToPhotos[j].name = name } }

\* C23: after the matching, for every row of every album entry of the
\* snapshot: if some enriched item derives the row's key under the active
\* policy, every such item is in the album's plan and the key is in the
\* matched set; otherwise the key is in the unresolved set. The plan of an
\* album holds nothing but the items its rows resolve to.
C23_RowsResolveToAllItems ==
  Matched =>
     \A e \in Range(jsonData.albums[1]) :
        /\ \A r \in Range(e.photos) :
              LET key == RowKey(matchMode, r)
              IN IF ItemsFor(key) # {}
                 THEN ItemsFor(key) \subseteq PlanOf(e.name) /\ key \in matchedPhotos
                 ELSE key \in notFoundPhotos
        /\ PlanOf(e.name) = UNION { ItemsFor(RowKey(matchMode, r)) : r \in Range(e.photos) }

\* one row resolved to two items, both planned, and the key of another row of
\* the snapshot was in no lookup entry
C23_Witness ==
  /\ Matched /\ pc = "add"
  /\ \E e \in Range(jsonData.albums[1]) : \E r \in Range(e.photos) :
        /\ Cardinality(ItemsFor(RowKey(matchMode, r))) = 2
        /\ ItemsFor(RowKey(matchMode, r)) \subseteq PlanOf(e.name)
  /\ \E e \in Range(jsonData.albums[1]) : \E r \in Range(e.photos) :
        /\ ItemsFor(RowKey(matchMode, r)) = {}
        /\ RowKey(matchMode, r) \in notFoundPhotos

\* the add calls of the run, settled or in flight
AddCallsIssued ==
  { [ name |-> addCalls[c].name, shared |-> addCalls[c].shared ] : c \in 1..Len(addCalls) }
  \cup { [ name |-> addInFlight[c].name, shared |-> addInFlight[c].shared ] :
           c \in 1..Len(addInFlight) }

\* the titles createAlbum returned a key for in this run
CreatedTitles == { createCalls[c].title : c \in { j \in 1..Len(createCalls) : createCalls[j].ok } }

\* C24: every add call of the run is addItemsToSharedAlbum exactly when the
\* cached record of its album has isShared true, and addItemsToAlbum otherwise;
\* the calls for an album created in the run are all addItemsToAlbum.
C24_CallKindFollowsCache ==
  run = "import" =>
     \A call \in AddCallsIssued :
        /\ call.name \in DOMAIN albumCache
        /\ call.shared <=> albumCache[call.name].isShared
        /\ call.name \in CreatedTitles => ~call.shared

\* the run wrote to a shared album it found and to an album it created
C24_Witness ==
  /\ run = "import" /\ outcome = "summary"
  /\ \E call \in AddCallsIssued : call.shared /\ albumCache[call.name].isShared
  /\ \E call \in AddCallsIssued : call.name \in CreatedTitles /\ ~call.shared
  /\ \E call \in AddCallsIssued :
        call.name \notin CreatedTitles /\ ~albumCache[call.name].isShared

\* the enriched items, in the order of the list, that are in an album titled t
MembersOf(t) ==
  SelectSeq([ k \in 1..Len(itemsWithInfo) |-> itemsWithInfo[k].mediaKey ],
            LAMBDA i : \E a \in Range(remoteAlbums) : a.title = t /\ i \in a.items)

\* the rows the exported snapshot holds under title t
ExportedUnder(t) ==
  LET entries == exportFile[1].albums[1]
      at == { k \in 1..Len(entries) : entries[k].name = t }
  IN IF at = {} THEN << >> ELSE entries[CHOOSE k \in at : TRUE].photos

C26_Thresholds ==
  Len(tsOut) >= 1 =>
     /\ tsIn > E15 => tsOut[1] * Kilo = Fx(tsIn)
     /\ (tsIn > E12 /\ tsIn <= E15) => tsOut[1] = Fx(tsIn)
     /\ tsIn <= E12 => tsOut[1] = Fx(tsIn * Kilo)
     /\ tsIn = E15 => tsOut[1] = Fx(E15)
     /\ tsIn = E12 => tsOut[1] = Fx(E12 * Kilo)

\* the function was applied to 10^12 itself and multiplied it
C26_Witness ==
  /\ Len(tsOut) >= 1 /\ tsIn = E12
  /\ tsOut[1] = Fx(E12 * Kilo)

\* C27 as claimed: under "seconds" the key of a record is its fileName joined
\* with floor(normalizeToMs(ts) / 1000); three records with one fileName whose
\* timestamps are the same whole second in seconds, in milliseconds and in
\* microseconds derive one key under "seconds" and three different keys under
\* "exact"; under "filename" the key is the fileName.
C27_SameSecondSameKey ==
  keys # None =>
     LET k == keys[1]
     IN /\ \A u \in 1..3 :
              k.key["seconds"][u] =
                "a.jpg|" \o ToString(normalizeToMs(Fx(k.ts[u])) \div (Kilo * Kilo))
        /\ k.key["seconds"][1] = k.key["seconds"][2]
        /\ k.key["seconds"][2] = k.key["seconds"][3]
        /\ \A u, v \in 1..3 : u # v => k.key["exact"][u] # k.key["exact"][v]
        /\ \A u \in 1..3 : k.key["filename"][u] = "a.jpg"

\* C28: after the matching, no key is both matched and unresolved, the two
\* sets together are the set of unique keys derived from the rows of the
\* snapshot, and the counts of the summary add up: photos matched + photos
\* not found = unique photos.
C28_MatchedAndUnresolvedPartition ==
  Matched =>
     /\ matchedPhotos \cap notFoundPhotos = {}
     /\ matchedPhotos \cup notFoundPhotos = uniquePhotos
     /\ uniquePhotos = { RowKey(matchMode, r) : r \in Range(Rows(jsonData.albums[1])) }
     /\ Cardinality(matchedPhotos) + Cardinality(notFoundPhotos) = Cardinality(uniquePhotos)
     /\ outcome = "summary" =>
           report[1].matched + report[1].notFound = report[1].uniquePhotos

\* the summary reports matched and unresolved keys, fewer keys than rows
C28_Witness ==
  /\ Matched /\ outcome = "summary"
  /\ report[1].matched > 0 /\ report[1].notFound > 0
  /\ report[1].uniquePhotos < Len(Rows(jsonData.albums[1]))

\* the number of deduplicated item references planned, over all planned albums
PlannedSize == SumSeq([ k \in 1..Len(albumToPhotos) |-> Len(albumToPhotos[k].mediaKeys) ])

\* C29: in the summary of runImport, photos added + errors is the number of
\* deduplicated item references planned over all planned albums, and albums
\* created is at most the number of planned albums whose title the album
\* listing of the run did not return.
C29_SummaryAccounts ==
  (run = "import" /\ outcome = "summary") =>
     /\ report[1].photosAdded + report[1].errors = PlannedSize
     /\ report[1].photosAdded = AddedSize
     /\ report[1].albumsCreated <= Len(MissingTitles)
     /\ report[1].albumsCreated <=
           Cardinality({ k \in 1..Len(albumToPhotos) : albumToPhotos[k].name \notin TitlesAtStart })

\* a summary after a failed creation, a failed batch and a successful batch:
\* fewer albums created than were missing, and both counters above zero
C29_Witness ==
  /\ run = "import" /\ outcome = "summary"
  /\ report[1].albumsCreated < Len(MissingTitles)
  /\ SkippedSize > 0 /\ FailedSize > 0
  /\ report[1].photosAdded > 0
  /\ report[1].errors = SkippedSize + FailedSize

\* the time anchor of the first listing call of the run
FirstAnchor == IF run = "export" THEN Some(endMs \div Kilo) ELSE jsonData.end_timestamp

\* the items the listing source delivers to the run over all its pages, newest first
SourceItems == SubSeq(Listing, StartOf(0, FirstAnchor), Len(Listing))

\* the source delivers its items in descending order of normalized timestamp
Descending(items) == \A j, k \in 1..Len(items) : j < k => ItemMs(items[j]) >= ItemMs(items[k])

\* C30: the listing source delivering its items in descending timestamp order,
\* the range fetch ends with exactly the source items whose normalized
\* timestamp is in [startMs, endMs], in source order: the stop on
\* lastItemTimestamp < startMs leaves no in-range item behind, and the in-range
\* items of the page the loop stops on are kept.
C30_RangeFetchComplete ==
  loopExit.how # "none" =>
     /\ Descending(SourceItems)
     /\ allItems = SelectSeq(SourceItems, LAMBDA i : ItemMs(i) >= startMs /\ ItemMs(i) <= endMs)
     /\ \A i \in Range(loopExit.page.items) :
           (ItemMs(i) >= startMs /\ ItemMs(i) <= endMs) => i \in Range(allItems)

\* the loop stopped, with a token left, on a later page that held an item of
\* the range and an item older than the range
C30_Witness ==
  /\ loopExit.how = "break" /\ loopExit.token /\ loopExit.calls >= 2
  /\ \E i, j \in Range(loopExit.page.items) :
        /\ ItemMs(i) >= startMs /\ ItemMs(i) <= endMs /\ i \in Range(allItems)
        /\ ItemMs(j) < startMs

\* the row resolves to at least one enriched item under the policy
Resolved(mode, row) == Lookup(mode, itemsWithInfo, RowKey(mode, row)) # << >>

\* the items the album entry's rows resolve to under the policy
PlannedUnder(mode, e) == Range(MediaKeysOf(mode, itemsWithInfo, e.photos))

\* C31: for the snapshot and the enriched items of a run, a row resolved under
\* "exact" is resolved under "seconds" and a row resolved under "seconds" is
\* resolved under "filename"; the items planned for each album under "exact"
\* are among those planned under "seconds", which are among those planned
\* under "filename".
C31_PoliciesNested ==
  ReadyToMatch =>
     \A e \in Range(jsonData.albums[1]) :
        /\ \A r \in Range(e.photos) :
              /\ Resolved("exact", r) => Resolved("seconds", r)
              /\ Resolved("seconds", r) => Resolved("filename", r)
        /\ PlannedUnder("exact", e) \subseteq PlannedUnder("seconds", e)
        /\ PlannedUnder("seconds", e) \subseteq PlannedUnder("filename", e)

\* one album entry has a row resolved under "exact" and a row resolved only
\* from "seconds" on, and plans strictly more items under "seconds" than
\* under "exact", all of them planned under "filename" too
C31_Witness ==
  /\ ReadyToMatch
  /\ \E e \in Range(jsonData.albums[1]) :
        /\ \E r \in Range(e.photos) : Resolved("exact", r)
        /\ \E r \in Range(e.photos) : ~Resolved("exact", r) /\ Resolved("seconds", r)
        /\ PlannedUnder("exact", e) # PlannedUnder("seconds", e)
        /\ PlannedUnder("exact", e) # {}
        /\ PlannedUnder("seconds", e) \subseteq PlannedUnder("filename", e)

\* the items whose detail fetch resolved, whatever the order of the results
OkItems == { allItems[p] : p \in settledOk }

\* the enriched list holds a later item of the range before an earlier one
OutOfOrder ==
  \E j, k \in 1..Len(itemsWithInfo) : \E p, q \in 1..Len(allItems) :
     /\ j < k /\ q < p
     /\ itemsWithInfo[j].mediaKey = allItems[p] /\ itemsWithInfo[k].mediaKey = allItems[q]

\* C32: the set of rows under each title of the exported snapshot, and in
\* restore the set of items planned for each album, are determined by the
\* library, the range (or the snapshot and the policy) and the set of fetches
\* that resolved; the order in which the fetches completed has no part in it.
C32_OrderIndependent ==
  /\ (run = "export" /\ outcome = "exported") =>
        \A t \in Titles :
           Range(ExportedUnder(t)) =
             { << FileNameOf(i), TimestampOf(i) >> :
                 i \in { m \in OkItems : \E a \in Range(remoteAlbums) :
                                            a.title = t /\ m \in a.items } }
  /\ Matched =>
        \A e \in Range(jsonData.albums[1]) :
           PlanOf(e.name) =
             { i \in OkItems : \E r \in Range(e.photos) :
                  KeyOf(matchMode, FileNameOf(i), TimestampOf(i)) = RowKey(matchMode, r) }

\* the fetches of the export and those of the restore of its snapshot completed
\* out of order, the rows of an album were written in the reverse of the
\* listing order, and the plan holds every item of the range
C32_Witness ==
  /\ Matched /\ OutOfOrder /\ settledFail = {}
  /\ exportFile # None /\ jsonData = exportFile[1]
  /\ ExportedUnder("A") = << << "a.jpg", Base + 1 >>, << "a.jpg", Base + 2 >> >>
  /\ PlanOf("A") = { 1, 2 }

\* C33: when every pending remote call settles and the listings end with a
\* page without token, a run of runExport or runImport that has started
\* eventually returns.
C33_RunsFinish == (pc # "idle") ~> (pc = "idle")

\* a restore returned with its summary after a range fetch of several pages,
\* more detail fetches than the pool holds and an album sent in two chunks
C33_Witness ==
  /\ run = "import" /\ pc = "idle" /\ outcome = "summary"
  /\ loopExit.calls >= 2
  /\ Len(allItems) > MAX_CONCURRENT_REQUESTS
  /\ Len(remoteAlbums) > PageSize
  /\ \E k \in 1..Len(albumToPhotos) : Len(Batches(albumToPhotos[k].mediaKeys)) >= 2


\* the three fields are present and every row is a (fileName, timestamp) pair;
\* the timestamps of the model are integers
WellFormed(data) == ~MissingField(data) /\ ~WrongShape(data)

\* C34 as claimed: runImport never reports the invalid structure for a
\* snapshot whose start_timestamp, end_timestamp and albums are present, with
\* integer timestamps and albums mapping titles to lists of (fileName,
\* timestamp) pairs.
C34_WellFormedNotRejected ==
  (run = "import" /\ WellFormed(jsonData)) => outcome # "invalid"
====
